---- MODULE Spec2Model ----
(***************************************************************************)
(* Orchestration core of the agent sandbox: the Task Store (agentTask and  *)
(* chatSession rows), the start / respond / cancel request handlers, the   *)
(* webhook handler, the observer stream and the Modal spawn client.  Every *)
(* `await` of a handler is a point where other handlers may run, so a      *)
(* handler is one action per database or network call.                     *)
(***************************************************************************)
EXTENDS Integers, Sequences, FiniteSets, TLC

\* ------------------------------------------------------------------ bounds
MaxDeliveries == 4      \* webhook requests handled in one behaviour
MaxClock == 2           \* distinct instants new Date() can return
MaxSeq == 3             \* length of a redelivered webhook sequence
MaxPriorTasks == 12     \* earlier tasks of the chat session a task is started in
MaxPollFailures == 3    \* polls of a stream that fail in a row

\* ---------------------------------------------------------- value universes
Null == "null"
TaskIds == {"t1"}
SessionIds == {"c1"}
RespondIds == {1, 2}
Handles == {"s1", "s2"}
Prompts == {"list files"}
Msgs == {"m1"}
Questions == {"q1", "q2"}
Results == {"x1", "x2"}
Errors == {"e1"}
Responses == {"/tmp", "/home"}

MAX_HISTORY_TASKS == 10

TerminalStatuses == {"completed", "failed", "cancelled"}

VARIABLES
    tasks,          \* agentTask table: id -> row
    chatSessions,   \* chatSession table: id -> row
    spawnCalls,     \* calls made to spawnModalAgent, in order
    clock,          \* the instant new Date() returns
    startReq,       \* start requests: position and locals of each
    respondReq,     \* respond requests: position and locals of each
    sessionWrites,  \* webhook handlers between their task and session update
    delivered,      \* number of webhook events that reached their agentTask.update
    cancelOk,       \* task ids whose cancel request was answered {ok: true}
    webhookResp,    \* HTTP status of the last answer of the webhook handler
    streams,        \* the observer streams of a task: position, locals, output
    scn,            \* scenario driver: the inputs of the checkpoint/resume trace
    evlog,          \* redelivery driver: the webhook sequence applied
    snapshot,       \* redelivery driver: the task table after the first application
    legacy          \* requests of the legacy handlers: position and the values read

coreVars == <<tasks, chatSessions, spawnCalls, clock, startReq, respondReq,
              sessionWrites, delivered, cancelOk, webhookResp, streams>>
harness == <<scn, evlog, snapshot, legacy>>

\* The requests the legacy handlers may have in flight, and a request that
\* has not arrived.
LegacyIds == {1, 2}

LegacyIdle == [pc |-> "idle", kind |-> "none", taskId |-> Null, input |-> "",
               updates |-> << >>, segment |-> 0, agentSessionId |-> Null]

\* The observers that may hold a stream on the task, and the stream of the
\* first of them.
ObserverIds == {1, 2}

stream == streams[1]
vars == <<tasks, chatSessions, spawnCalls, clock, startReq, respondReq,
          sessionWrites, delivered, cancelOk, webhookResp, streams,
          scn, evlog, snapshot, legacy>>

\* ------------------------------------------------------------------- rows
NullResult == [isNull |-> TRUE, summary |-> Null, error |-> Null]

CompletedResult(x) == [isNull |-> FALSE, summary |-> x, error |-> Null]

FailedResult(e) == [isNull |-> FALSE, summary |-> Null, error |-> e]

NoTime == 0

\* The row agentTask.create inserts at instant n (created_at defaults to now).
NewTask(p, c, n) ==
    [ status |-> "pending",
      taskPrompt |-> p,
      sessionId |-> c,
      agentSessionId |-> Null,
      pendingClarification |-> Null,
      statusUpdates |-> << >>,
      result |-> NullResult,
      completedAt |-> NoTime,
      createdAt |-> n ]

\* ----------------------------------------------------------- webhook events
\* The five kinds of the WebhookEvent type, with handles, questions and
\* results drawn from H, Q and X.
EventsOver(H, Q, X) ==
         [type : {"session_started"}, sessionId : H]
    \cup [type : {"status_update"}, message : Msgs]
    \cup [type : {"clarification_needed"}, sessionId : H, question : Q]
    \cup [type : {"completed"}, sessionId : H, result : X]
    \cup [type : {"failed"}, error : Errors]

WebhookEvents == EventsOver(Handles, Questions, Results)

\* The events the worker of Spec sends: one handle, one question, one result.
LineageEvents == EventsOver({"s1"}, {"q1"}, {"x1"})

\* PushStatusUpdate with a fault: the list is written back with the new
\* entry alone.
PushStatusUpdateReplacingLog(task, ev, now) ==
    [task EXCEPT !.statusUpdates = <<[message |-> ev.message, timestamp |-> now]>>]

\* PushStatusUpdate with a fault: the update also sets the status.
PushStatusUpdateMarkingRunning(task, ev, now) ==
    [task EXCEPT !.statusUpdates =
                     Append(@, [message |-> ev.message, timestamp |-> now]),
                 !.status = "running"]

\* statusUpdates: { push: {...} }, one array append done by the database.
PushStatusUpdate(task, ev, now) ==
    [task EXCEPT !.statusUpdates =
        Append(@, [message |-> ev.message, timestamp |-> now])]

\* The agentTask.update of the switch in the webhook handler: the row after
\* the event's case has written its data at instant now.
ApplyToTask(task, ev, now) ==
    CASE ev.type = "session_started" ->
            [task EXCEPT !.agentSessionId = ev.sessionId,
                         !.status = "running"]
      [] ev.type = "status_update" -> PushStatusUpdate(task, ev, now)
      [] ev.type = "clarification_needed" ->
            [task EXCEPT !.status = "awaiting_input",
                         !.agentSessionId = ev.sessionId,
                         !.pendingClarification = ev.question]
      [] ev.type = "completed" ->
            [task EXCEPT !.status = "completed",
                         !.agentSessionId = ev.sessionId,
                         !.result = CompletedResult(ev.result),
                         !.completedAt = now]
      [] ev.type = "failed" ->
            [task EXCEPT !.status = "failed",
                         !.result = FailedResult(ev.error)]

\* The types the switch of the webhook handler has a case for.
EventTypes == {"session_started", "status_update", "clarification_needed",
               "completed", "failed"}

\* The events whose case goes on to update the chat session.
BearsHandle(ev) == ev.type \in {"session_started", "clarification_needed", "completed"}

\* ---------------------------------------------------------- context builder
RECURSIVE SortByCreatedAt(_)
\* orderBy: { createdAt: "asc" } over a set of task ids.
SortByCreatedAt(ids) ==
    IF ids = {} THEN << >>
    ELSE LET first == CHOOSE t \in ids :
                          \A u \in ids : tasks[t].createdAt <= tasks[u].createdAt
         IN  <<first>> \o SortByCreatedAt(ids \ {first})

Take(seq, n) == IF Len(seq) <= n THEN seq ELSE SubSeq(seq, 1, n)

\* prisma.agentTask.findMany of the start handler.
RecentTasks(c) ==
    Take(SortByCreatedAt({t \in DOMAIN tasks :
                             /\ tasks[t].sessionId = c
                             /\ tasks[t].status \in {"completed", "failed"}}),
         MAX_HISTORY_TASKS)

\* The one or two history items the loop of the start handler pushes for a task.
HistoryItems(t) ==
    LET row == tasks[t]
        user == <<[role |-> "user", content |-> <<row.taskPrompt>>]>>
    IN  IF row.status = "completed" /\ ~row.result.isNull
        THEN user \o <<[role |-> "assistant",
                        content |-> <<IF row.result.summary \in {Null, ""}
                                      THEN "Task completed."
                                      ELSE row.result.summary>>]>>
        ELSE IF row.status = "failed" /\ ~row.result.isNull
        THEN user \o <<[role |-> "assistant",
                        content |-> <<"Task failed: ",
                                      IF row.result.error \in {Null, ""}
                                      THEN "Unknown error"
                                      ELSE row.result.error>>]>>
        ELSE user

RECURSIVE BuildHistory(_)
BuildHistory(ids) ==
    IF ids = << >> THEN << >>
    ELSE HistoryItems(Head(ids)) \o BuildHistory(Tail(ids))

RECURSIVE HistoryText(_)
\* history.map(...).join("\n\n"), as a sequence of tokens.
HistoryText(history) ==
    IF history = << >> THEN << >>
    ELSE LET item == Head(history)
             line == <<IF item.role = "user" THEN "User: " ELSE "Assistant: ">>
                     \o item.content
         IN  IF Len(history) = 1 THEN line
             ELSE line \o <<"\n\n">> \o HistoryText(Tail(history))

\* buildContextualPrompt with a fault: the current request comes before the
\* history.
buildContextualPromptRequestFirst(currentTask, history) ==
    IF Len(history) = 0 THEN <<currentTask>>
    ELSE <<"## Conversation History\n", "\n\n## Current Request\n", currentTask>>
         \o HistoryText(history)

\* A prompt is a sequence of tokens; the user's prompt is one token.
buildContextualPrompt(currentTask, history) ==
    IF Len(history) = 0 THEN <<currentTask>>
    ELSE <<"## Conversation History\n">> \o HistoryText(history)
         \o <<"\n\n## Current Request\n", currentTask>>

\* ------------------------------------------------------------- spawn client
\* spawnModalAgent: the call is recorded; ok is FALSE when it throws (the
\* endpoint is not configured, the fetch fails or the answer is not 2xx).
SpawnCallWithoutResume(t, prompt, resume, ok) ==
    [taskId |-> t, prompt |-> prompt, resumeSessionId |-> Null, ok |-> ok]

SpawnCall(t, prompt, resume, ok) ==
    [taskId |-> t, prompt |-> prompt, resumeSessionId |-> resume, ok |-> ok]

\* ------------------------------------------------------------ start handler
StartIdle == [pc |-> "idle", task |-> Null, session |-> Null,
              resume |-> Null, prompt |-> << >>]

\* StartAccepts with a fault: no prompt is refused.
StartAcceptsAnyPrompt(p) == TRUE

\* `if (!task)` is false: the prompt is present and not the empty string.
StartAccepts(p) == p \notin {Null, ""}

\* `if (!task)`: an empty or missing prompt is answered 400.
StartReject(t, p) ==
    /\ startReq[t].pc = "idle"
    /\ ~StartAccepts(p)
    /\ startReq' = [startReq EXCEPT ![t].pc = "rejected"]
    /\ UNCHANGED harness
    /\ UNCHANGED <<webhookResp, streams>>
    /\ UNCHANGED <<tasks, chatSessions, spawnCalls, clock, respondReq,
                   sessionWrites, delivered, cancelOk>>

\* Get or create the chat session; the handler keeps the row it read.
StartSession(t, p, c) ==
    /\ startReq[t].pc = "idle"
    /\ StartAccepts(p)
    /\ IF c \in DOMAIN chatSessions
       THEN /\ startReq' = [startReq EXCEPT ![t].pc = "session",
                                            ![t].task = p,
                                            ![t].session = c,
                                            ![t].resume = chatSessions[c].agentSessionId]
            /\ UNCHANGED chatSessions
       ELSE /\ SessionIds \ DOMAIN chatSessions # {}
            /\ LET new == CHOOSE x \in SessionIds \ DOMAIN chatSessions : TRUE
               IN  /\ chatSessions' = [x \in DOMAIN chatSessions \cup {new} |->
                                          IF x = new THEN [agentSessionId |-> Null]
                                          ELSE chatSessions[x]]
                   /\ startReq' = [startReq EXCEPT ![t].pc = "session",
                                                   ![t].task = p,
                                                   ![t].session = new]
    /\ UNCHANGED harness
    /\ UNCHANGED <<webhookResp, streams>>
    /\ UNCHANGED <<tasks, spawnCalls, clock, respondReq, sessionWrites,
                   delivered, cancelOk>>

\* findMany of the recent tasks, the history loop and buildContextualPrompt.
StartHistory(t) ==
    /\ startReq[t].pc = "session"
    /\ startReq' = [startReq EXCEPT
            ![t].pc = "history",
            ![t].prompt = buildContextualPrompt(startReq[t].task,
                              BuildHistory(RecentTasks(startReq[t].session)))]
    /\ UNCHANGED harness
    /\ UNCHANGED <<webhookResp, streams>>
    /\ UNCHANGED <<tasks, chatSessions, spawnCalls, clock, respondReq,
                   sessionWrites, delivered, cancelOk>>

\* prisma.agentTask.create.
StartCreate(t) ==
    /\ startReq[t].pc = "history"
    /\ t \notin DOMAIN tasks
    /\ tasks' = [x \in DOMAIN tasks \cup {t} |->
                    IF x = t
                    THEN NewTask(startReq[t].task, startReq[t].session, clock)
                    ELSE tasks[x]]
    /\ startReq' = [startReq EXCEPT ![t].pc = "created"]
    /\ UNCHANGED harness
    /\ UNCHANGED <<webhookResp, streams>>
    /\ UNCHANGED <<chatSessions, spawnCalls, clock, respondReq, sessionWrites,
                   delivered, cancelOk>>

\* await spawnModalAgent(...): a throw goes to the catch, which answers 500.
StartSpawn(t, ok) ==
    /\ startReq[t].pc = "created"
    /\ spawnCalls' = Append(spawnCalls,
                        SpawnCall(t, startReq[t].prompt, startReq[t].resume, ok))
    /\ startReq' = [startReq EXCEPT ![t].pc = IF ok THEN "spawned" ELSE "error"]
    /\ UNCHANGED harness
    /\ UNCHANGED <<webhookResp, streams>>
    /\ UNCHANGED <<tasks, chatSessions, clock, respondReq, sessionWrites,
                   delivered, cancelOk>>

\* prisma.agentTask.update({ data: { status: "running" } }).
StartMarkRunning(t) ==
    /\ startReq[t].pc = "spawned"
    /\ tasks' = [tasks EXCEPT ![t].status = "running"]
    /\ startReq' = [startReq EXCEPT ![t].pc = "done"]
    /\ UNCHANGED harness
    /\ UNCHANGED <<webhookResp, streams>>
    /\ UNCHANGED <<chatSessions, spawnCalls, clock, respondReq, sessionWrites,
                   delivered, cancelOk>>

\* ---------------------------------------------------------- respond handler
\* answered is history: whether the request was the first to read the pending
\* clarification it answers (no other request had read the task and not yet
\* written it).
RespondIdle == [pc |-> "idle", taskId |-> Null, response |-> Null,
                agentSessionId |-> Null, answered |-> FALSE]

\* Requests are numbered in the order they arrive.
Arrives(r) ==
    /\ respondReq[r].pc = "idle"
    /\ \A q \in RespondIds : q < r => respondReq[q].pc # "idle"

\* RespondAccepts with a fault: the status of the row is not checked.
RespondAcceptsAnyStatus(t, response) ==
    /\ t # Null
    /\ response # ""
    /\ t \in DOMAIN tasks
    /\ tasks[t].agentSessionId # Null

\* What the handler checks on the row it read with findUnique.
RespondAccepts(t, response) ==
    /\ t # Null
    /\ response # ""
    /\ t \in DOMAIN tasks
    /\ tasks[t].status = "awaiting_input"
    /\ tasks[t].agentSessionId # Null

\* A request that fails a check is answered 400 or 404 and writes nothing.
RespondReject(r, t, response) ==
    /\ Arrives(r)
    /\ ~RespondAccepts(t, response)
    /\ respondReq' = [respondReq EXCEPT ![r].pc = "rejected"]
    /\ UNCHANGED harness
    /\ UNCHANGED <<webhookResp, streams>>
    /\ UNCHANGED <<tasks, chatSessions, spawnCalls, clock, startReq,
                   sessionWrites, delivered, cancelOk>>

\* findUnique and the checks: the handler keeps the row it read.
RespondRead(r, t, response) ==
    /\ Arrives(r)
    /\ RespondAccepts(t, response)
    /\ respondReq' = [respondReq EXCEPT
            ![r] = [pc |-> "read", taskId |-> t, response |-> response,
                    agentSessionId |-> tasks[t].agentSessionId,
                    answered |-> ~\E q \in RespondIds :
                                     /\ q # r
                                     /\ respondReq[q].pc = "read"
                                     /\ respondReq[q].taskId = t]]
    /\ UNCHANGED harness
    /\ UNCHANGED <<webhookResp, streams>>
    /\ UNCHANGED <<tasks, chatSessions, spawnCalls, clock, startReq,
                   sessionWrites, delivered, cancelOk>>

\* RespondWrite with a fault: the update sets the status and does not clear
\* pendingClarification.
RespondWriteKeepsClarification(r) ==
    /\ respondReq[r].pc = "read"
    /\ tasks' = [tasks EXCEPT ![respondReq[r].taskId].status = "running"]
    /\ respondReq' = [respondReq EXCEPT ![r].pc = "written"]
    /\ UNCHANGED harness
    /\ UNCHANGED <<webhookResp, streams>>
    /\ UNCHANGED <<chatSessions, spawnCalls, clock, startReq, sessionWrites,
                   delivered, cancelOk>>

\* RespondWrite with a fault: the response is stored as the prompt of the task.
RespondWriteReplacesPrompt(r) ==
    /\ respondReq[r].pc = "read"
    /\ tasks' = [tasks EXCEPT ![respondReq[r].taskId].status = "running",
                              ![respondReq[r].taskId].pendingClarification = Null,
                              ![respondReq[r].taskId].taskPrompt = respondReq[r].response]
    /\ respondReq' = [respondReq EXCEPT ![r].pc = "written"]
    /\ UNCHANGED harness
    /\ UNCHANGED <<webhookResp, streams>>
    /\ UNCHANGED <<chatSessions, spawnCalls, clock, startReq, sessionWrites,
                   delivered, cancelOk>>

\* prisma.agentTask.update({ status: "running", pendingClarification: DbNull }).
RespondWrite(r) ==
    /\ respondReq[r].pc = "read"
    /\ tasks' = [tasks EXCEPT ![respondReq[r].taskId].status = "running",
                              ![respondReq[r].taskId].pendingClarification = Null]
    /\ respondReq' = [respondReq EXCEPT ![r].pc = "written"]
    /\ UNCHANGED harness
    /\ UNCHANGED <<webhookResp, streams>>
    /\ UNCHANGED <<chatSessions, spawnCalls, clock, startReq, sessionWrites,
                   delivered, cancelOk>>

\* await spawnModalAgent(...) with the handle of the row read; a throw goes
\* to the catch, which answers 500.
RespondSpawn(r, ok) ==
    /\ respondReq[r].pc = "written"
    /\ spawnCalls' = Append(spawnCalls,
                        SpawnCall(respondReq[r].taskId, <<respondReq[r].response>>,
                                  respondReq[r].agentSessionId, ok))
    /\ respondReq' = [respondReq EXCEPT ![r].pc = IF ok THEN "done" ELSE "error"]
    /\ UNCHANGED harness
    /\ UNCHANGED <<webhookResp, streams>>
    /\ UNCHANGED <<tasks, chatSessions, clock, startReq, sessionWrites,
                   delivered, cancelOk>>

\* ---------------------------------------------------------- webhook handler
\* webhookResp before the handler has answered any request.
NoResponse == 0

\* The key the handler signs with, and a key it does not have.
WEBHOOK_SECRET == "k1"

Keys == {WEBHOOK_SECRET, "k2"}

\* createHmac("sha256", key).update(body).digest("hex"): equal for equal key
\* and body, different otherwise.
Sign(key, body) == [key |-> key, body |-> body]

\* A request body: the JSON text of an event, or text JSON.parse throws on.
Body(t, ev) == [json |-> TRUE, taskId |-> t, event |-> ev]

BadJson == [json |-> FALSE, taskId |-> Null, event |-> [type |-> Null]]

\* The request carries no x-webhook-signature header.
NoSignature == Sign(Null, BadJson)

\* ValidSignature with a fault: every signature is taken.
AcceptsAnySignature(signature, body) == TRUE

\* `signature !== expectedSignature` is false.
ValidSignature(signature, body) == signature = Sign(WEBHOOK_SECRET, body)

\* The signature check fails: 401, before the body is parsed.
WebhookUnauthorized(signature, body) ==
    /\ ~ValidSignature(signature, body)
    /\ webhookResp' = 401
    /\ UNCHANGED harness
    /\ UNCHANGED streams
    /\ UNCHANGED <<tasks, chatSessions, spawnCalls, clock, startReq, respondReq,
                   sessionWrites, delivered, cancelOk>>

\* JSON.parse throws: the catch answers 500.
WebhookParseFailure(signature, body) ==
    /\ ValidSignature(signature, body)
    /\ ~body.json
    /\ webhookResp' = 500
    /\ UNCHANGED harness
    /\ UNCHANGED streams
    /\ UNCHANGED <<tasks, chatSessions, spawnCalls, clock, startReq, respondReq,
                   sessionWrites, delivered, cancelOk>>

\* The switch has no case and no default for the type: control falls to
\* `return NextResponse.json({ ok: true })`.
WebhookUnknownType(signature, body) ==
    /\ ValidSignature(signature, body)
    /\ body.json
    /\ body.event.type \notin EventTypes
    /\ webhookResp' = 200
    /\ UNCHANGED harness
    /\ UNCHANGED streams
    /\ UNCHANGED <<tasks, chatSessions, spawnCalls, clock, startReq, respondReq,
                   sessionWrites, delivered, cancelOk>>

\* Webhook with a fault: the clarification_needed case spawns the worker
\* again with the handle of the event.
WebhookRespawning(t, ev) ==
    /\ t \in DOMAIN tasks
    /\ ev.type \in EventTypes
    /\ tasks' = [tasks EXCEPT ![t] = ApplyToTask(tasks[t], ev, clock)]
    /\ sessionWrites' =
          IF BearsHandle(ev) /\ tasks[t].sessionId # Null
          THEN sessionWrites \cup
                   {[session |-> tasks[t].sessionId, handle |-> ev.sessionId]}
          ELSE sessionWrites
    /\ webhookResp' = IF BearsHandle(ev) /\ tasks[t].sessionId # Null
                      THEN webhookResp ELSE 200
    /\ delivered' = delivered + 1
    /\ spawnCalls' = IF ev.type = "clarification_needed"
                     THEN Append(spawnCalls,
                                 SpawnCall(t, <<ev.question>>, ev.sessionId, TRUE))
                     ELSE spawnCalls
    /\ UNCHANGED harness
    /\ UNCHANGED streams
    /\ UNCHANGED <<chatSessions, clock, startReq, respondReq, cancelOk>>

\* A correctly signed event for a task that exists: the agentTask.update of
\* its case; a handle-bearing event then still has its chatSession.update to
\* do, the others are answered {ok: true} at once.
Webhook(t, ev) ==
    /\ t \in DOMAIN tasks
    /\ ev.type \in EventTypes
    /\ tasks' = [tasks EXCEPT ![t] = ApplyToTask(tasks[t], ev, clock)]
    /\ sessionWrites' =
          IF BearsHandle(ev) /\ tasks[t].sessionId # Null
          THEN sessionWrites \cup
                   {[session |-> tasks[t].sessionId, handle |-> ev.sessionId]}
          ELSE sessionWrites
    /\ webhookResp' = IF BearsHandle(ev) /\ tasks[t].sessionId # Null
                      THEN webhookResp ELSE 200
    /\ delivered' = delivered + 1
    /\ UNCHANGED harness
    /\ UNCHANGED streams
    /\ UNCHANGED <<chatSessions, spawnCalls, clock, startReq, respondReq, cancelOk>>

\* WebhookUnknownTask with a fault: the update is an upsert, which inserts
\* the row and is answered {ok: true}.
WebhookUnknownTaskUpserts(t, ev) ==
    /\ t \notin DOMAIN tasks
    /\ ev.type \in EventTypes
    /\ tasks' = [x \in DOMAIN tasks \cup {t} |->
                    IF x = t THEN ApplyToTask(NewTask("", Null, clock), ev, clock)
                    ELSE tasks[x]]
    /\ webhookResp' = 200
    /\ delivered' = delivered + 1
    /\ UNCHANGED harness
    /\ UNCHANGED streams
    /\ UNCHANGED <<chatSessions, spawnCalls, clock, startReq, respondReq,
                   sessionWrites, cancelOk>>

\* prisma.agentTask.update throws for a row that does not exist: the catch
\* answers 500 and nothing is written.
WebhookUnknownTask(t, ev) ==
    /\ t \notin DOMAIN tasks
    /\ ev.type \in EventTypes
    /\ webhookResp' = 500
    /\ delivered' = delivered + 1
    /\ UNCHANGED harness
    /\ UNCHANGED streams
    /\ UNCHANGED <<tasks, chatSessions, spawnCalls, clock, startReq, respondReq,
                   sessionWrites, cancelOk>>

\* prisma.chatSession.update({ agentSessionId: event.sessionId }), after which
\* the handler answers {ok: true}.
WebhookSessionUpdate(w) ==
    /\ w \in sessionWrites
    /\ chatSessions' = [chatSessions EXCEPT ![w.session].agentSessionId = w.handle]
    /\ sessionWrites' = sessionWrites \ {w}
    /\ webhookResp' = 200
    /\ UNCHANGED harness
    /\ UNCHANGED streams
    /\ UNCHANGED <<tasks, spawnCalls, clock, startReq, respondReq, delivered,
                   cancelOk>>

\* A request whose signature matches and whose body parses to an event of a
\* known type reaches the agentTask.update of its case.
WebhookDispatch(signature, body) ==
    /\ ValidSignature(signature, body)
    /\ body.json
    /\ \/ Webhook(body.taskId, body.event)
       \/ WebhookUnknownTask(body.taskId, body.event)

\* POST /api/agent/webhook, from the request to the answer or, for an event
\* that bears a handle, to the chat session update still to be done.
WebhookPost(signature, body) ==
    \/ WebhookUnauthorized(signature, body)
    \/ WebhookParseFailure(signature, body)
    \/ WebhookUnknownType(signature, body)
    \/ WebhookDispatch(signature, body)

\* ----------------------------------------------------------- cancel handler
\* The handler checks that taskId is present, logs and answers {ok: true};
\* its agentTask.update is commented out.
Cancel(t) ==
    /\ cancelOk' = cancelOk \cup {t}
    /\ UNCHANGED harness
    /\ UNCHANGED <<webhookResp, streams>>
    /\ UNCHANGED <<tasks, chatSessions, spawnCalls, clock, startReq, respondReq,
                   sessionWrites, delivered>>

\* ----------------------------------------------------------- observer stream
\* GET /api/agent/[taskId]/stream: the locals of start(controller), the
\* position of its timers and the events enqueued so far.  pc is "polling"
\* while a call of poll is due, "closing" while the timer of safeClose is
\* due, "closed" once controller.close() was called and "stopped" when no
\* timer is due and the controller was not closed by the handler.
StreamIdle == [pc |-> "idle", taskId |-> Null, lastStatus |-> "",
               lastUpdateCount |-> 0, isAborted |-> FALSE, isClosed |-> FALSE,
               failures |-> 0, out |-> << >>]

ConnectedEvent == [type |-> "connected"]

TaskNotFoundEvent == [type |-> "error", error |-> "Task not found"]

WorkingEvent == [type |-> "status_update", message |-> "Agent is working..."]

ClarificationEvent(row) ==
    [type |-> "clarification_needed", sessionId |-> row.agentSessionId,
     question |-> row.pendingClarification]

CompletedEvent(row) ==
    [type |-> "completed", sessionId |-> row.agentSessionId, result |-> row.result]

FailedEvent(row) ==
    [type |-> "failed",
     error |-> IF row.result.isNull \/ row.result.error \in {Null, ""}
               THEN "Unknown error" ELSE row.result.error]

StatusUpdateEvent(u) == [type |-> "status_update", message |-> u.message]

\* SendsTerminalEvent with a fault: the completed branch does not return.
SendsTerminalEventForFailedOnly(row, lastStatus) ==
    /\ row.status # lastStatus
    /\ row.status = "failed"

\* The branch of `if (task.status !== lastStatus)` that ends with `return`.
SendsTerminalEvent(row, lastStatus) ==
    /\ row.status # lastStatus
    /\ \/ row.status = "completed" /\ ~row.result.isNull
       \/ row.status = "failed"

\* What the status-change block of poll enqueues for the row it read.
StatusEvents(row, lastStatus) ==
    IF row.status = lastStatus THEN << >>
    ELSE IF row.status = "running" THEN <<WorkingEvent>>
    ELSE IF row.status = "awaiting_input" /\ row.pendingClarification # Null
    THEN <<ClarificationEvent(row)>>
    ELSE IF row.status = "completed" /\ ~row.result.isNull
    THEN <<CompletedEvent(row)>>
    ELSE IF row.status = "failed" THEN <<FailedEvent(row)>>
    ELSE << >>

\* updates.slice(lastUpdateCount), one status_update event for each.
NewUpdates(row, lastUpdateCount) ==
    IF Len(row.statusUpdates) > lastUpdateCount
    THEN [i \in 1..(Len(row.statusUpdates) - lastUpdateCount) |->
             StatusUpdateEvent(row.statusUpdates[lastUpdateCount + i])]
    ELSE << >>

\* start(controller): the connected event is enqueued and poll is called.
StreamConnect(o, t) ==
    /\ streams[o].pc = "idle"
    /\ streams' = [streams EXCEPT ![o] = [@ EXCEPT !.pc = "polling", !.taskId = t,
                                                   !.out = <<ConnectedEvent>>]]
    /\ UNCHANGED harness
    /\ UNCHANGED <<tasks, chatSessions, spawnCalls, clock, startReq, respondReq,
                   sessionWrites, delivered, cancelOk, webhookResp>>

\* PollContinuation with a fault: after the error event for a missing task
\* the stream is left open and poll is scheduled again.
PollContinuationRetriesMissingTask(s) ==
    IF s.taskId \notin DOMAIN tasks
    THEN [s EXCEPT !.out = Append(@, TaskNotFoundEvent),
                   !.failures = 0,
                   !.pc = "polling"]
    ELSE LET row == tasks[s.taskId]
         IN  IF SendsTerminalEvent(row, s.lastStatus)
             THEN [s EXCEPT
                      !.lastStatus = row.status,
                      !.out = @ \o StatusEvents(row, s.lastStatus),
                      !.failures = 0,
                      !.pc = "closing"]
             ELSE [s EXCEPT
                      !.lastStatus = row.status,
                      !.out = @ \o StatusEvents(row, s.lastStatus)
                                \o NewUpdates(row, s.lastUpdateCount),
                      !.lastUpdateCount =
                          IF Len(row.statusUpdates) > @
                          THEN Len(row.statusUpdates) ELSE @,
                      !.failures = 0,
                      !.pc = IF row.status \in TerminalStatuses
                             THEN "stopped" ELSE "polling"]

\* What poll does with the answer of findUnique; nothing in it awaits.
PollContinuation(s) ==
    IF s.taskId \notin DOMAIN tasks
    THEN [s EXCEPT !.out = Append(@, TaskNotFoundEvent),
                   !.isClosed = TRUE,
                   !.failures = 0,
                   !.pc = "closed"]
    ELSE LET row == tasks[s.taskId]
         IN  IF SendsTerminalEvent(row, s.lastStatus)
             THEN [s EXCEPT
                      !.lastStatus = row.status,
                      !.out = @ \o StatusEvents(row, s.lastStatus),
                      !.failures = 0,
                      !.pc = "closing"]
             ELSE [s EXCEPT
                      !.lastStatus = row.status,
                      !.out = @ \o StatusEvents(row, s.lastStatus)
                                \o NewUpdates(row, s.lastUpdateCount),
                      !.lastUpdateCount =
                          IF Len(row.statusUpdates) > @
                          THEN Len(row.statusUpdates) ELSE @,
                      !.failures = 0,
                      !.pc = IF row.status \in TerminalStatuses
                             THEN "stopped" ELSE "polling"]

\* One call of poll: findUnique and everything after it.
StreamPoll(o) ==
    /\ streams[o].pc = "polling"
    /\ streams' = [streams EXCEPT ![o] =
                      IF @.isAborted THEN [@ EXCEPT !.pc = "stopped"]
                      ELSE PollContinuation(@)]
    /\ UNCHANGED harness
    /\ UNCHANGED <<tasks, chatSessions, spawnCalls, clock, startReq, respondReq,
                   sessionWrites, delivered, cancelOk, webhookResp>>

\* One call of poll whose findUnique rejects: the catch schedules poll again.
\* failures is history: the number of calls in a row that ended this way.
StreamPollFails(o) ==
    /\ streams[o].pc = "polling"
    /\ ~streams[o].isAborted
    /\ streams[o].failures < MaxPollFailures
    /\ streams' = [streams EXCEPT ![o].failures = @ + 1]
    /\ UNCHANGED harness
    /\ UNCHANGED <<tasks, chatSessions, spawnCalls, clock, startReq, respondReq,
                   sessionWrites, delivered, cancelOk, webhookResp>>

\* The timer of `setTimeout(safeClose, 1000)` fires.
StreamCloseTimer(o) ==
    /\ streams[o].pc = "closing"
    /\ streams' = [streams EXCEPT ![o] =
                      IF ~@.isClosed /\ ~@.isAborted
                      THEN [@ EXCEPT !.isClosed = TRUE, !.pc = "closed"]
                      ELSE [@ EXCEPT !.pc = "stopped"]]
    /\ UNCHANGED harness
    /\ UNCHANGED <<tasks, chatSessions, spawnCalls, clock, startReq, respondReq,
                   sessionWrites, delivered, cancelOk, webhookResp>>

\* StreamAbort with a fault: the flags are shared by the streams of the task.
StreamAbortSharedFlags(o) ==
    /\ streams[o].pc \in {"polling", "closing", "stopped"}
    /\ ~streams[o].isAborted
    /\ streams' = [q \in ObserverIds |->
                      [streams[q] EXCEPT !.isAborted = TRUE, !.isClosed = TRUE]]
    /\ UNCHANGED harness
    /\ UNCHANGED <<tasks, chatSessions, spawnCalls, clock, startReq, respondReq,
                   sessionWrites, delivered, cancelOk, webhookResp>>

\* The abort listener: the observer went away while the stream was open and
\* no call of poll was waiting for findUnique.
StreamAbort(o) ==
    /\ streams[o].pc \in {"polling", "closing", "stopped"}
    /\ ~streams[o].isAborted
    /\ streams' = [streams EXCEPT ![o] =
                      [@ EXCEPT !.isAborted = TRUE, !.isClosed = TRUE]]
    /\ UNCHANGED harness
    /\ UNCHANGED <<tasks, chatSessions, spawnCalls, clock, startReq, respondReq,
                   sessionWrites, delivered, cancelOk, webhookResp>>

\* The abort listener runs while a call of poll, which has passed its test of
\* isAborted, waits for findUnique.
StreamAbortInFlight(o) ==
    /\ streams[o].pc = "polling"
    /\ ~streams[o].isAborted
    /\ streams' = [streams EXCEPT ![o] =
                      [@ EXCEPT !.isAborted = TRUE, !.isClosed = TRUE,
                                !.pc = "in_flight"]]
    /\ UNCHANGED harness
    /\ UNCHANGED <<tasks, chatSessions, spawnCalls, clock, startReq, respondReq,
                   sessionWrites, delivered, cancelOk, webhookResp>>

\* The events the continuation of poll passes to controller.enqueue.
PollEvents(s) ==
    IF s.taskId \notin DOMAIN tasks THEN <<TaskNotFoundEvent>>
    ELSE LET row == tasks[s.taskId]
         IN  IF SendsTerminalEvent(row, s.lastStatus)
             THEN StatusEvents(row, s.lastStatus)
             ELSE StatusEvents(row, s.lastStatus) \o NewUpdates(row, s.lastUpdateCount)

\* findUnique answers a call of poll whose observer has gone.  The listener
\* does not close the controller, and safeClose does nothing once isAborted
\* is set: whether controller.enqueue still accepts an event (accepts) or
\* throws, because the runtime has cancelled the stream, is not decided by
\* the handler.  A throw goes to the catch, which schedules nothing.
StreamPollAfterAbort(o, accepts) ==
    /\ streams[o].pc = "in_flight"
    /\ LET s == streams[o]
           next == PollContinuation(s)
       IN  streams' = [streams EXCEPT ![o] =
              IF PollEvents(s) = << >> \/ accepts
              THEN [next EXCEPT !.isClosed = TRUE,
                                !.pc = IF next.pc = "closed" THEN "stopped"
                                       ELSE next.pc]
              ELSE [s EXCEPT !.lastStatus = IF s.taskId \in DOMAIN tasks
                                            THEN tasks[s.taskId].status ELSE @,
                             !.pc = "stopped"]]
    /\ UNCHANGED harness
    /\ UNCHANGED <<tasks, chatSessions, spawnCalls, clock, startReq, respondReq,
                   sessionWrites, delivered, cancelOk, webhookResp>>

\* ---------------------------------------------------------------- the clock
Tick ==
    /\ clock < MaxClock
    /\ clock' = clock + 1
    /\ UNCHANGED harness
    /\ UNCHANGED <<webhookResp, streams>>
    /\ UNCHANGED <<tasks, chatSessions, spawnCalls, startReq, respondReq,
                   sessionWrites, delivered, cancelOk>>

\* ------------------------------------------------------------ specification
NoScenario == [s |-> Null, q |-> Null, r |-> Null, x |-> Null]

NoRows == [x \in {} |-> Null]

Init ==
    /\ tasks = NoRows
    /\ chatSessions = NoRows
    /\ spawnCalls = << >>
    /\ clock = 1
    /\ startReq = [t \in TaskIds |-> StartIdle]
    /\ respondReq = [r \in RespondIds |-> RespondIdle]
    /\ sessionWrites = {}
    /\ delivered = 0
    /\ cancelOk = {}
    /\ webhookResp = NoResponse
    /\ streams = [o \in ObserverIds |-> StreamIdle]
    /\ scn = NoScenario
    /\ evlog = << >>
    /\ snapshot = NoRows
    /\ legacy = [h \in LegacyIds |-> LegacyIdle]

Start ==
    \E t \in TaskIds :
        \/ \E p \in Prompts \cup {Null, ""} : StartReject(t, p)
        \/ \E p \in Prompts \cup {Null, ""}, c \in SessionIds \cup {Null} :
               StartSession(t, p, c)
        \/ StartHistory(t)
        \/ StartCreate(t)
        \/ \E ok \in BOOLEAN : StartSpawn(t, ok)
        \/ StartMarkRunning(t)

Respond ==
    \E r \in RespondIds :
        \/ \E t \in TaskIds, response \in {"/tmp", ""} :
              \/ RespondReject(r, t, response)
              \/ RespondRead(r, t, response)
        \/ RespondWrite(r)
        \/ \E ok \in BOOLEAN : RespondSpawn(r, ok)

\* A worker sends events for its task once a spawn call for it was accepted.
Spawned(t) == \E i \in 1..Len(spawnCalls) : spawnCalls[i].taskId = t /\ spawnCalls[i].ok

Deliver ==
    \/ /\ delivered < MaxDeliveries
       /\ \E t \in TaskIds, ev \in LineageEvents :
              \/ Spawned(t) /\ Webhook(t, ev)
              \/ WebhookUnknownTask(t, ev)
    \/ \E w \in sessionWrites : WebhookSessionUpdate(w)

Next ==
    \/ Start
    \/ Respond
    \/ Deliver
    \/ \E t \in TaskIds : Cancel(t)
    \/ Tick

Spec == Init /\ [][Next]_vars

\* ------------------------------------------------------------------ claims
IsWebhookStep == delivered' = delivered + 1

\* C1 (as claimed): a webhook event applied to a task whose status is
\* completed, failed or cancelled leaves its status, result and completedAt
\* as they were.
TerminalStateImmutable ==
    [][\A t \in DOMAIN tasks :
          (IsWebhookStep /\ tasks[t].status \in TerminalStatuses) =>
              /\ tasks'[t].status = tasks[t].status
              /\ tasks'[t].result = tasks[t].result
              /\ tasks'[t].completedAt = tasks[t].completedAt]_vars

\* C3 (as claimed): in every reachable state pendingClarification is non-null
\* if and only if the status is awaiting_input.
ClarificationIffAwaitingInput ==
    \A t \in DOMAIN tasks :
        (tasks[t].pendingClarification # Null) <=> (tasks[t].status = "awaiting_input")

\* C4 (as claimed): result is non-null if and only if the status is completed
\* or failed, and a result once set is never replaced by a different value.
ResultIffFinishedAndSetOnce ==
    [][/\ \A t \in DOMAIN tasks' :
              (~tasks'[t].result.isNull) <=> (tasks'[t].status \in {"completed", "failed"})
       /\ \A t \in DOMAIN tasks :
              ~tasks[t].result.isNull => tasks'[t].result = tasks[t].result]_vars

IsCancelStep(t) == t \notin cancelOk /\ t \in cancelOk'

\* C6 (as claimed): Cancel of a task in a non-terminal status sets the status
\* to cancelled, and a cancelled task stays cancelled.
CancelSetsCancelled ==
    [][\A t \in DOMAIN tasks :
          /\ (IsCancelStep(t) /\ tasks[t].status \notin TerminalStatuses)
                 => tasks'[t].status = "cancelled"
          /\ tasks[t].status = "cancelled" => tasks'[t].status = "cancelled"]_vars

SpawnsOf(t) == SelectSeq(spawnCalls, LAMBDA c : c.taskId = t)

StartFinished(t) == startReq[t].pc \in {"done", "error"}

RespondFinished(r) == respondReq[r].pc \in {"idle", "rejected", "done", "error"}

\* C7 (as claimed): once the handler whose spawn call failed has answered,
\* the task is failed with an error recorded; it is not left pending or running.
SpawnFailureFailsTask ==
    /\ \A t \in DOMAIN tasks :
          startReq[t].pc = "error" /\ Len(SpawnsOf(t)) = 1 =>
              /\ tasks[t].status = "failed"
              /\ tasks[t].result.error # Null
    /\ \A r \in RespondIds :
          respondReq[r].pc = "error" =>
              tasks[respondReq[r].taskId].status \notin {"pending", "running"}

ClarificationsAnswered(t) ==
    Cardinality({r \in RespondIds : respondReq[r].taskId = t /\ respondReq[r].answered})

\* C8 (as claimed): when no handler of a task is in progress, the number of
\* spawn calls made for it is one plus the number of clarifications answered.
SpawnOncePerDecision ==
    \A t \in DOMAIN tasks :
        (StartFinished(t) /\ \A r \in RespondIds : RespondFinished(r)) =>
            Len(SpawnsOf(t)) = 1 + ClarificationsAnswered(t)

\* C9 (as claimed): the mark-running write of start changes a task only
\* when its status is pending or awaiting_input.
IsMarkRunningStep(t) == startReq[t].pc = "spawned" /\ startReq'[t].pc = "done"

MarkRunningOnlyFromPendingOrAwaiting ==
    [][\A t \in DOMAIN tasks :
          (IsMarkRunningStep(t) /\ tasks[t].status \notin {"pending", "awaiting_input"})
              => tasks'[t] = tasks[t]]_vars

\* C10 (as claimed): the write of respond does nothing when the task is no
\* longer awaiting_input at the moment of the write.
IsRespondWriteStep(r) == respondReq[r].pc = "read" /\ respondReq'[r].pc = "written"

RespondWriteIsAtomic ==
    [][\A r \in RespondIds :
          (IsRespondWriteStep(r) /\ tasks[respondReq[r].taskId].status # "awaiting_input")
              => tasks'[respondReq[r].taskId] = tasks[respondReq[r].taskId]]_vars

IsRespondArrival(r, to) == respondReq[r].pc = "idle" /\ respondReq'[r].pc = to

IsStartArrival(t, to) == startReq[t].pc = "idle" /\ startReq'[t].pc = to

\* C15: a start request whose prompt is empty or missing is refused and
\* creates no task, no chat session and no spawn call; a request that is
\* accepted has a non-empty prompt, and the row it creates is the only row
\* added, has status pending and has that prompt as its taskPrompt.
StartRefusesEmptyPrompt ==
    [][\A t \in TaskIds :
          /\ IsStartArrival(t, "rejected") =>
                 /\ tasks' = tasks
                 /\ chatSessions' = chatSessions
                 /\ spawnCalls' = spawnCalls
          /\ startReq[t].pc = "rejected" => startReq'[t] = startReq[t]
          /\ IsStartArrival(t, "session") => startReq'[t].task \notin {Null, ""}
          /\ startReq[t].pc = "idle" => startReq'[t].pc \in {"idle", "session", "rejected"}
          /\ (t \notin DOMAIN tasks /\ t \in DOMAIN tasks') =>
                 /\ DOMAIN tasks' = DOMAIN tasks \cup {t}
                 /\ startReq[t].pc = "history"
                 /\ startReq[t].task \notin {Null, ""}
                 /\ tasks'[t].status = "pending"
                 /\ tasks'[t].taskPrompt = startReq[t].task
          /\ DOMAIN tasks \subseteq DOMAIN tasks'
          /\ Cardinality(DOMAIN tasks') <= Cardinality(DOMAIN tasks) + 1]_vars

\* A request was accepted and its task created; the row is alone in the table.
StartRefusesEmptyPromptWitness ==
    \E t \in TaskIds :
        /\ startReq[t].pc = "created"
        /\ DOMAIN tasks = {t}
        /\ tasks[t].status = "pending"
        /\ tasks[t].taskPrompt \in Prompts

\* C19 (as claimed): completedAt is set if and only if the status is
\* completed, failed or cancelled, and once set it never changes.
CompletedAtIffTerminalAndSetOnce ==
    [][/\ \A t \in DOMAIN tasks' :
              (tasks'[t].completedAt # NoTime) <=> (tasks'[t].status \in TerminalStatuses)
       /\ \A t \in DOMAIN tasks :
              tasks[t].completedAt # NoTime =>
                  tasks'[t].completedAt = tasks[t].completedAt]_vars

\* -------------------------------------------- the checkpoint/resume scenario
\* One task is driven through start; session_started(s); clarification_needed(q);
\* SubmitResponse(r); completed(x), each handler running to its end before
\* the next begins.  The worker reports the handle s of its session in every
\* event that carries one.  s, q, r and x are drawn at the start and kept in scn.
ScnTask == "t1"

ScnInit ==
    /\ tasks = NoRows
    /\ chatSessions = NoRows
    /\ spawnCalls = << >>
    /\ clock = 1
    /\ startReq = [t \in TaskIds |-> StartIdle]
    /\ respondReq = [r \in RespondIds |-> RespondIdle]
    /\ sessionWrites = {}
    /\ delivered = 0
    /\ cancelOk = {}
    /\ webhookResp = NoResponse
    /\ streams = [o \in ObserverIds |-> StreamIdle]
    /\ scn \in [s : Handles, q : Questions, r : Responses, x : Results]
    /\ evlog = << >>
    /\ snapshot = NoRows
    /\ legacy = [h \in LegacyIds |-> LegacyIdle]

\* The start request, one step of its handler at a time, its spawn accepted.
SequentialStart(t) ==
    /\ delivered = 0
    /\ \/ \E p \in Prompts : StartSession(t, p, Null)
       \/ StartHistory(t)
       \/ StartCreate(t)
       \/ StartSpawn(t, TRUE)
       \/ StartMarkRunning(t)

Quiet(t) == startReq[t].pc = "done" /\ sessionWrites = {}

ScnSessionStarted ==
    /\ Quiet(ScnTask)
    /\ delivered = 0
    /\ Webhook(ScnTask, [type |-> "session_started", sessionId |-> scn.s])

ScnClarificationNeeded ==
    /\ Quiet(ScnTask)
    /\ delivered = 1
    /\ Webhook(ScnTask, [type |-> "clarification_needed", sessionId |-> scn.s,
                         question |-> scn.q])

ScnSubmitResponse ==
    /\ Quiet(ScnTask)
    /\ delivered = 2
    /\ \/ RespondRead(1, ScnTask, scn.r)
       \/ RespondWrite(1)
       \/ RespondSpawn(1, TRUE)

ScnCompleted ==
    /\ Quiet(ScnTask)
    /\ delivered = 2
    /\ respondReq[1].pc = "done"
    /\ Webhook(ScnTask, [type |-> "completed", sessionId |-> scn.s,
                         result |-> scn.x])

ScnNext ==
    \/ SequentialStart(ScnTask)
    \/ ScnSessionStarted
    \/ ScnClarificationNeeded
    \/ ScnSubmitResponse
    \/ ScnCompleted
    \/ \E w \in sessionWrites : WebhookSessionUpdate(w)
    \/ Tick

ScnSpec == ScnInit /\ [][ScnNext]_vars

ResumeSpawns == SelectSeq(spawnCalls, LAMBDA c : c.resumeSessionId # Null)

\* C5: along the scenario the task is pending once created, running when start
\* has finished, running with workerSessionId = s after session_started(s),
\* awaiting_input with the question q after clarification_needed(q), running
\* with no pending clarification once respond has written, with exactly one
\* resume spawn (resume handle s, prompt r) once respond has finished, and
\* completed with result x after completed(x).
CheckpointResumeTrace ==
    \A t \in DOMAIN tasks :
        LET row == tasks[t]
            start == startReq[t].pc
            respond == respondReq[1].pc
        IN  /\ (delivered = 0 /\ start \in {"created", "spawned"}) =>
                   row.status = "pending"
            /\ (delivered = 0 /\ start = "done") =>
                   row.status = "running"
            /\ delivered = 1 =>
                   /\ row.status = "running"
                   /\ row.agentSessionId = scn.s
            /\ (delivered = 2 /\ respond \in {"idle", "read"}) =>
                   /\ row.status = "awaiting_input"
                   /\ row.pendingClarification = scn.q
                   /\ ResumeSpawns = << >>
            /\ (delivered = 2 /\ respond = "written") =>
                   /\ row.status = "running"
                   /\ row.pendingClarification = Null
                   /\ ResumeSpawns = << >>
            /\ (delivered = 2 /\ respond = "done") =>
                   /\ row.status = "running"
                   /\ row.pendingClarification = Null
                   /\ ResumeSpawns = <<SpawnCall(t, <<scn.r>>, scn.s, TRUE)>>
            /\ delivered = 3 =>
                   /\ row.status = "completed"
                   /\ row.result = CompletedResult(scn.x)
                   /\ ResumeSpawns = <<SpawnCall(t, <<scn.r>>, scn.s, TRUE)>>

\* The scenario has run to its end: completed(x) was applied after the resume.
CheckpointResumeTraceWitness ==
    /\ delivered = 3
    /\ respondReq[1].pc = "done"
    /\ ScnTask \in DOMAIN tasks
    /\ tasks[ScnTask].status = "completed"
    /\ Len(spawnCalls) = 2

\* ------------------------------------------------- the redelivery scenario
\* A sequence of webhook events, drawn at the start and kept in evlog, is
\* applied to one started task, the task table is recorded in snapshot, and
\* the same sequence is applied a second time.
RedeliveryEvents == EventsOver(Handles, {"q1"}, {"x1"})

RECURSIVE SeqsUpTo(_, _)
SeqsUpTo(S, n) ==
    IF n = 0 THEN {<< >>}
    ELSE LET shorter == SeqsUpTo(S, n - 1)
         IN  shorter \cup {Append(q, e) : q \in shorter, e \in S}

RdInit ==
    /\ tasks = NoRows
    /\ chatSessions = NoRows
    /\ spawnCalls = << >>
    /\ clock = 1
    /\ startReq = [t \in TaskIds |-> StartIdle]
    /\ respondReq = [r \in RespondIds |-> RespondIdle]
    /\ sessionWrites = {}
    /\ delivered = 0
    /\ cancelOk = {}
    /\ webhookResp = NoResponse
    /\ streams = [o \in ObserverIds |-> StreamIdle]
    /\ scn = NoScenario
    /\ evlog \in SeqsUpTo(RedeliveryEvents, MaxSeq) \ {<< >>}
    /\ snapshot = NoRows
    /\ legacy = [h \in LegacyIds |-> LegacyIdle]

RdApply ==
    /\ Quiet(ScnTask)
    /\ snapshot = NoRows
    /\ delivered < Len(evlog)
    /\ Webhook(ScnTask, evlog[delivered + 1])

RdSnapshot ==
    /\ Quiet(ScnTask)
    /\ snapshot = NoRows
    /\ delivered = Len(evlog)
    /\ snapshot' = tasks
    /\ UNCHANGED <<coreVars, scn, evlog, legacy>>

RdReapply ==
    /\ Quiet(ScnTask)
    /\ snapshot # NoRows
    /\ delivered < 2 * Len(evlog)
    /\ Webhook(ScnTask, evlog[delivered - Len(evlog) + 1])

RdNext ==
    \/ SequentialStart(ScnTask)
    \/ RdApply
    \/ RdSnapshot
    \/ RdReapply
    \/ \E w \in sessionWrites : WebhookSessionUpdate(w)
    \/ Tick

RdSpec == RdInit /\ [][RdNext]_vars

Reapplied == snapshot # NoRows /\ delivered = 2 * Len(evlog) /\ sessionWrites = {}

\* C2 (as claimed): after a sequence of webhook events has been applied to a
\* task a second time, the task's status, result, completedAt,
\* pendingClarification, workerSessionId and statusUpdates are what they were
\* after the first application.
RedeliveryIsIdempotent ==
    Reapplied =>
        \A t \in DOMAIN snapshot :
            /\ tasks[t].status = snapshot[t].status
            /\ tasks[t].result = snapshot[t].result
            /\ tasks[t].completedAt = snapshot[t].completedAt
            /\ tasks[t].pendingClarification = snapshot[t].pendingClarification
            /\ tasks[t].agentSessionId = snapshot[t].agentSessionId
            /\ tasks[t].statusUpdates = snapshot[t].statusUpdates

\* ------------------------------------------------ requests to the webhook
\* One task is started while requests of every kind are posted to the webhook
\* handler: with and without a matching signature, unparseable, of an
\* unknown type, for the task and for a task id that was never created, and
\* with a failed event whose error is the empty string.
UnknownTaskId == "t0"

PostedEvents ==
    LineageEvents \cup {[type |-> "failed", error |-> ""], [type |-> "heartbeat"]}

PostedBodies ==
    {Body(t, ev) : t \in TaskIds, ev \in PostedEvents}
        \cup {Body(UnknownTaskId, ev) : ev \in LineageEvents}
        \cup {BadJson}

\* The signature headers a request with this body is posted with: signed
\* with either key, signed for another body, and absent.
SignatureHeaders(body) ==
    {Sign(k, body) : k \in Keys} \cup {Sign(WEBHOOK_SECRET, BadJson), NoSignature}

WhInit == Init

WhStart ==
    \/ \E p \in Prompts : StartSession(ScnTask, p, Null)
    \/ StartHistory(ScnTask)
    \/ StartCreate(ScnTask)
    \/ StartSpawn(ScnTask, TRUE)
    \/ StartMarkRunning(ScnTask)

WhPost ==
    \E body \in PostedBodies : \E signature \in SignatureHeaders(body) :
        \/ WebhookUnauthorized(signature, body)
        \/ WebhookParseFailure(signature, body)
        \/ WebhookUnknownType(signature, body)
        \/ /\ delivered < MaxDeliveries
           /\ body.taskId \in DOMAIN tasks => Spawned(body.taskId)
           /\ WebhookDispatch(signature, body)

WhNext ==
    \/ WhStart
    \/ WhPost
    \/ \E w \in sessionWrites : WebhookSessionUpdate(w)

WhSpec == WhInit /\ [][WhNext]_vars

\* C16: a request whose signature is not the keyed signature of its body is
\* answered 401 and changes no task and no chat session: every step of the
\* handler either is such an answer or is not the handling of such a request.
BadSignatureIsUnauthorized ==
    [][\/ /\ webhookResp' = 401
          /\ tasks' = tasks
          /\ chatSessions' = chatSessions
          /\ sessionWrites' = sessionWrites
       \/ \A body \in PostedBodies :
             \A signature \in SignatureHeaders(body) :
                 signature # Sign(WEBHOOK_SECRET, body) => ~WebhookPost(signature, body)]_vars

\* A request was answered 401 while the task was in progress.
BadSignatureIsUnauthorizedWitness ==
    /\ webhookResp = 401
    /\ ScnTask \in DOMAIN tasks
    /\ tasks[ScnTask].status = "awaiting_input"

\* C17 (as claimed): a correctly signed request whose body does not parse or
\* whose type is not one of the five is answered with a non-success status
\* and changes no task and no chat session.
MalformedIsBadRequest ==
    [][\/ /\ webhookResp' >= 400
          /\ tasks' = tasks
          /\ chatSessions' = chatSessions
          /\ sessionWrites' = sessionWrites
       \/ \A body \in PostedBodies :
             (~body.json \/ body.event.type \notin EventTypes) =>
                 ~WebhookPost(Sign(WEBHOOK_SECRET, body), body)]_vars

\* C18: a correctly signed event of any of the five types for a task id that
\* is not in the table is answered with an error status, inserts no row and
\* changes no task and no chat session.
UnknownTaskIsRefused ==
    [][\/ /\ webhookResp' >= 400
          /\ tasks' = tasks
          /\ chatSessions' = chatSessions
          /\ sessionWrites' = sessionWrites
       \/ \A body \in PostedBodies :
             (/\ body.json
              /\ body.event.type \in EventTypes
              /\ body.taskId \notin DOMAIN tasks) =>
                 ~WebhookPost(Sign(WEBHOOK_SECRET, body), body)]_vars

\* An event for the task id that was never created was answered 500 while
\* another task was in the table.
UnknownTaskIsRefusedWitness ==
    /\ webhookResp = 500
    /\ delivered > 0
    /\ DOMAIN tasks = {ScnTask}
    /\ tasks[ScnTask].status = "running"

\* C20 (as claimed): a failed task has a non-empty result.error and a
\* cancelled task has no error.
FailedHasErrorCancelledHasNone ==
    \A t \in DOMAIN tasks :
        /\ tasks[t].status = "failed" =>
               /\ ~tasks[t].result.isNull
               /\ tasks[t].result.error \notin {Null, ""}
        /\ tasks[t].status = "cancelled" => tasks[t].result.error = Null

\* ------------------------------------------------- observing one task
\* One task is started, receives webhook events and one response, while one
\* observer connects to its stream at any moment, polls, and may go away.
StreamInit == Init

StreamDeliver ==
    /\ delivered < MaxDeliveries
    /\ Spawned(ScnTask)
    /\ \E ev \in LineageEvents : Webhook(ScnTask, ev)

StreamRespond ==
    \/ RespondRead(1, ScnTask, "/tmp")
    \/ RespondWrite(1)
    \/ RespondSpawn(1, TRUE)

StreamNext ==
    \/ WhStart
    \/ StreamDeliver
    \/ \E w \in sessionWrites : WebhookSessionUpdate(w)
    \/ StreamRespond
    \/ StreamConnect(1, ScnTask)
    \/ StreamPoll(1)
    \/ StreamCloseTimer(1)
    \/ StreamAbort(1)

StreamSpec == StreamInit /\ [][StreamNext]_vars

\* A poll that is due is made and a timer that is due fires.
StreamFairSpec ==
    StreamSpec /\ WF_vars(StreamPoll(1)) /\ WF_vars(StreamCloseTimer(1))

\* The first poll of the stream reads the status completed.
FirstPollSeesCompleted ==
    /\ stream.out = <<ConnectedEvent>>
    /\ stream.lastStatus = ""
    /\ stream'.lastStatus = "completed"

\* The first event after connected is the completed event.
IsLateObserver == Len(stream.out) >= 2 /\ stream.out[2].type = "completed"

\* C12: when the first poll of a stream finds the task completed, the stream
\* has sent connected and then one completed event with the result and the
\* handle stored in the row; it sends nothing after that, and it is closed by
\* the handler unless the observer goes away first.
LateObserverGetsResultThenClose ==
    /\ [][FirstPollSeesCompleted =>
             /\ stream'.out = <<ConnectedEvent, CompletedEvent(tasks[stream.taskId])>>
             /\ stream'.pc = "closing"]_vars
    /\ [][IsLateObserver =>
             /\ stream'.out = stream.out
             /\ stream'.pc \in {"closing", "closed", "stopped"}
             /\ stream.pc = "stopped" => stream.isAborted]_vars
    /\ (IsLateObserver ~> (stream.pc = "closed" \/ stream.isAborted))

\* A late observer whose stream the handler closed, for a task that had
\* status updates stored.
LateObserverGetsResultThenCloseWitness ==
    /\ IsLateObserver
    /\ Len(stream.out) = 2
    /\ stream.pc = "closed"
    /\ ~stream.isAborted
    /\ Len(tasks[stream.taskId].statusUpdates) > 0

\* The completed and failed events the stream has sent.
TerminalEventsSent == SelectSeq(stream.out, LAMBDA e : e.type \in TerminalStatuses)

\* The stream is open and polling while the task has status T.
ObservedIn(T) ==
    /\ stream.pc = "polling"
    /\ ~stream.isAborted
    /\ stream.taskId \in DOMAIN tasks
    /\ tasks[stream.taskId].status = T

\* The one terminal event sent is the event for T, it is the last event
\* sent, and the handler has closed the stream.
DeliveredAndClosed(T) ==
    /\ Len(TerminalEventsSent) = 1
    /\ TerminalEventsSent[1].type = T
    /\ stream.out[Len(stream.out)].type = T
    /\ stream.pc = "closed"

\* C13 (as claimed): once the task has a terminal status T while a stream is
\* open, the stream comes to have sent exactly one terminal event, the one
\* for T, and to be closed, unless the observer goes away; nothing is sent
\* after a terminal event, and a closed stream stays closed.
TerminalDeliveredOnceThenClosed ==
    /\ \A T \in TerminalStatuses :
          ObservedIn(T) ~> (DeliveredAndClosed(T) \/ stream.isAborted)
    /\ [][Len(TerminalEventsSent) > 0 => stream'.out = stream.out]_vars
    /\ [][stream.pc = "closed" => stream'.pc = "closed"]_vars

\* The status_update events sent for entries of statusUpdates.
DeliveredUpdates(out) ==
    SelectSeq(out, LAMBDA e : e.type = "status_update" /\ e # WorkingEvent)

\* The events of all the entries of the row's statusUpdates, in order.
StoredUpdates(row) ==
    [i \in 1..Len(row.statusUpdates) |-> StatusUpdateEvent(row.statusUpdates[i])]

IsPrefix(a, b) == Len(a) <= Len(b) /\ a = SubSeq(b, 1, Len(a))

\* A poll of an open stream after which no further poll is due.
IsLastPoll ==
    /\ stream.pc = "polling"
    /\ ~stream.isAborted
    /\ stream.taskId \in DOMAIN tasks
    /\ stream'.pc \in {"closing", "stopped"}

\* C14 (as claimed): the entries of statusUpdates are sent once each and in
\* append order, and the poll after which the stream polls no more has sent
\* every entry the row holds when that poll reads it.
NoStatusUpdateLost ==
    [][/\ stream'.taskId \in DOMAIN tasks' =>
              IsPrefix(DeliveredUpdates(stream'.out),
                       StoredUpdates(tasks'[stream'.taskId]))
       /\ IsLastPoll =>
              DeliveredUpdates(stream'.out) = StoredUpdates(tasks[stream.taskId])]_vars

\* ------------------------------------------------- the status update log
IsStatusUpdateOf(t) ==
    \E ev \in LineageEvents : ev.type = "status_update" /\ Webhook(t, ev)

\* C21: in every step the statusUpdates of a task has its previous value as
\* a prefix, and a step that applies a status_update event to the task makes
\* it exactly one entry longer.
StatusUpdatesAppendOnly ==
    [][\A t \in DOMAIN tasks :
          /\ IsPrefix(tasks[t].statusUpdates, tasks'[t].statusUpdates)
          /\ IsStatusUpdateOf(t) =>
                 Len(tasks'[t].statusUpdates) = Len(tasks[t].statusUpdates) + 1]_vars

\* Two status_update events were applied to one task at different instants.
StatusUpdatesAppendOnlyWitness ==
    \E t \in DOMAIN tasks :
        /\ Len(tasks[t].statusUpdates) >= 2
        /\ tasks[t].statusUpdates[1].timestamp < tasks[t].statusUpdates[2].timestamp

\* C30: a step that applies a status_update event to a task changes, in that
\* row, only statusUpdates, which gets one entry more; the status, result,
\* completedAt, pendingClarification and workerSessionId of the row, the
\* chat sessions and the chat session updates still to be done are unchanged.
StatusUpdateChangesOnlyLog ==
    [][\A t \in DOMAIN tasks :
          IsStatusUpdateOf(t) =>
              /\ tasks'[t].statusUpdates # tasks[t].statusUpdates
              /\ tasks'[t].status = tasks[t].status
              /\ tasks'[t].result = tasks[t].result
              /\ tasks'[t].completedAt = tasks[t].completedAt
              /\ tasks'[t].pendingClarification = tasks[t].pendingClarification
              /\ tasks'[t].agentSessionId = tasks[t].agentSessionId
              /\ chatSessions' = chatSessions
              /\ sessionWrites' = sessionWrites]_vars

\* A status_update was applied to a task that was already completed, after
\* the instant of its completion.
StatusUpdateChangesOnlyLogWitness ==
    \E t \in DOMAIN tasks :
        /\ tasks[t].status = "completed"
        /\ Len(tasks[t].statusUpdates) = 1
        /\ tasks[t].statusUpdates[1].timestamp > tasks[t].completedAt

\* ------------------------------------------------ the lineage of one task
\* One task is started and resumed once by a response.  Its first worker
\* invocation reports the handle s1 and the invocation spawned by the resume
\* reports s2; an event of an invocation may be delivered at any time after
\* the invocation was spawned, and more than once.
InvocationHandle == <<"s1", "s2">>

MaxInvocations == Len(InvocationHandle)

Invocations(t) == Len(SelectSeq(spawnCalls, LAMBDA c : c.taskId = t /\ c.ok))

InvocationEvents(i) == EventsOver({InvocationHandle[i]}, {"q1"}, {"x1"})

LinInit == Init

LinDeliver ==
    /\ delivered < MaxDeliveries
    /\ \E i \in 1..MaxInvocations :
          /\ i <= Invocations(ScnTask)
          /\ \E ev \in InvocationEvents(i) : Webhook(ScnTask, ev)

LinNext ==
    \/ WhStart
    \/ LinDeliver
    \/ \E w \in sessionWrites : WebhookSessionUpdate(w)
    \/ StreamRespond

LinSpec == LinInit /\ [][LinNext]_vars

\* The invocation that reports the handle; 0 for no handle.
HandleRank(h) ==
    IF h = Null THEN 0
    ELSE CHOOSE i \in 1..MaxInvocations : InvocationHandle[i] = h

\* C22 (as claimed): the workerSessionId of a task is never set back to
\* null and is never replaced by the handle of an earlier invocation.
HandleNeverUnsetNorStale ==
    [][\A t \in DOMAIN tasks :
          HandleRank(tasks'[t].agentSessionId) >= HandleRank(tasks[t].agentSessionId)]_vars

\* C24 (as claimed): when no webhook handler is between its task update and
\* its chat session update, the handle of the chat session is the handle
\* the most recent handle-bearing event wrote to the task of the session.
SessionHasLatestHandle ==
    sessionWrites = {} =>
        \A t \in DOMAIN tasks :
            tasks[t].agentSessionId # Null =>
                chatSessions[tasks[t].sessionId].agentSessionId = tasks[t].agentSessionId

\* --------------------------------------- a task started in a used session
\* The chat session c1 already has n tasks, created at the instants 1..n:
\* one of them may have failed, one may still be running, the others are
\* completed.  A new task is started in the session, and the task that is
\* still running may report a new handle meanwhile.
PriorLabels == <<"01", "02", "03", "04", "05", "06", "07", "08", "09", "10",
                 "11", "12", "13">>

PriorId(i) == "p" \o PriorLabels[i]

PriorPrompt(i) == "ask " \o PriorLabels[i]

PriorAnswer(i) == "answer " \o PriorLabels[i]

\* The row of the i-th earlier task: created at instant i and brought to its
\* status by the webhook event that sets it.
PriorRow(i, failedOne, openOne) ==
    LET created == NewTask(PriorPrompt(i), "c1", i)
    IN  IF i = openOne
        THEN ApplyToTask(created, [type |-> "session_started", sessionId |-> "s1"], i)
        ELSE IF i = failedOne
        THEN ApplyToTask(created, [type |-> "failed", error |-> PriorAnswer(i)], i)
        ELSE ApplyToTask(created, [type |-> "completed", sessionId |-> "s1",
                                   result |-> PriorAnswer(i)], i)

PriorTable(n, failedOne, openOne) ==
    [u \in {PriorId(i) : i \in 1..n} |->
        PriorRow(CHOOSE i \in 1..n : PriorId(i) = u, failedOne, openOne)]

HistInitWith(n, failedOne, openOne) ==
    /\ tasks = PriorTable(n, failedOne, openOne)
    /\ chatSessions =
          IF n = 0 THEN NoRows
          ELSE [c \in {"c1"} |->
                  [agentSessionId |->
                      IF \E i \in 1..n : i = openOne \/ i # failedOne
                      THEN "s1" ELSE Null]]
    /\ clock = n + 1
    /\ spawnCalls = << >>
    /\ startReq = [t \in TaskIds |-> StartIdle]
    /\ respondReq = [r \in RespondIds |-> RespondIdle]
    /\ sessionWrites = {}
    /\ delivered = 0
    /\ cancelOk = {}
    /\ webhookResp = NoResponse
    /\ streams = [o \in ObserverIds |-> StreamIdle]
    /\ scn = NoScenario
    /\ evlog = << >>
    /\ snapshot = NoRows
    /\ legacy = [h \in LegacyIds |-> LegacyIdle]

HistInit ==
    \E n \in 0..MaxPriorTasks :
        \E failedOne \in 0..n, openOne \in 0..n :
            HistInitWith(n, failedOne, openOne)

HistStart ==
    \/ \E p \in Prompts, c \in SessionIds \cup {Null} : StartSession(ScnTask, p, c)
    \/ StartHistory(ScnTask)
    \/ StartCreate(ScnTask)
    \/ StartSpawn(ScnTask, TRUE)
    \/ StartMarkRunning(ScnTask)

\* The worker of the task still running reports a handle.
HistDeliver ==
    /\ delivered = 0
    /\ \E u \in DOMAIN tasks :
          /\ tasks[u].status = "running"
          /\ u # ScnTask
          /\ Webhook(u, [type |-> "session_started", sessionId |-> "s2"])

HistNext ==
    \/ HistStart
    \/ HistDeliver
    \/ \E w \in sessionWrites : WebhookSessionUpdate(w)

HistSpec == HistInit /\ [][HistNext]_vars

\* C26: the history of a new task is the min(k, 10) most recent finished
\* (completed or failed) tasks of its chat session in chronological order; of
\* more than 10 finished tasks the 10 newest are included.
FinishedIn(c) ==
    {u \in DOMAIN tasks : /\ tasks[u].sessionId = c
                          /\ tasks[u].status \in {"completed", "failed"}}

NewerFinished(c, u) ==
    {v \in FinishedIn(c) : tasks[v].createdAt > tasks[u].createdAt}

MostRecentFinished(c) ==
    SortByCreatedAt({u \in FinishedIn(c) :
                        Cardinality(NewerFinished(c, u)) < MAX_HISTORY_TASKS})

HistoryIsMostRecentTasks ==
    [][StartHistory(ScnTask) =>
          startReq'[ScnTask].prompt =
              buildContextualPrompt(startReq[ScnTask].task,
                  BuildHistory(MostRecentFinished(startReq[ScnTask].session)))]_vars

\* C25: with an empty history the contextual prompt is the current prompt
\* alone; with k prior tasks it is the preamble, then the k prompts and their
\* summaries or errors as User/Assistant pairs in chronological order, then
\* the current-request marker, then the current prompt; building it changes
\* nothing in the store.
RECURSIVE ExpectedPairs(_)
ExpectedPairs(ids) ==
    IF ids = << >> THEN << >>
    ELSE LET row == tasks[Head(ids)]
         IN  <<"User: ", row.taskPrompt, "Assistant: ">>
             \o (IF row.status = "completed" THEN <<row.result.summary>>
                 ELSE <<"Task failed: ", row.result.error>>)
             \o ExpectedPairs(Tail(ids))

IsSeparator(token) == token = "\n\n"

WithoutSeparators(seq) == SelectSeq(seq, LAMBDA token : ~IsSeparator(token))

Chronological(ids) ==
    \A i, j \in 1..Len(ids) :
        i < j => tasks[ids[i]].createdAt < tasks[ids[j]].createdAt

ContextualPromptShape ==
    [][StartHistory(ScnTask) =>
          LET ids == RecentTasks(startReq[ScnTask].session)
              current == startReq[ScnTask].task
              out == startReq'[ScnTask].prompt
          IN  /\ Chronological(ids)
              /\ IF Len(ids) = 0 THEN out = <<current>>
                 ELSE /\ Len(out) > 3
                      /\ out[1] = "## Conversation History\n"
                      /\ WithoutSeparators(SubSeq(out, 2, Len(out) - 2))
                            = ExpectedPairs(ids)
                      /\ out[Len(out) - 1] = "\n\n## Current Request\n"
                      /\ out[Len(out)] = current
              /\ UNCHANGED <<tasks, chatSessions, spawnCalls, sessionWrites>>]_vars

\* A prompt was built over a history of at least two tasks, one of them failed.
ContextualPromptShapeWitness ==
    /\ startReq[ScnTask].pc = "history"
    /\ Len(RecentTasks(startReq[ScnTask].session)) >= 2
    /\ \E u \in FinishedIn(startReq[ScnTask].session) : tasks[u].status = "failed"
    /\ Len(startReq[ScnTask].prompt) > 3

FanEvents ==
    {ev \in LineageEvents : ev.type \in {"status_update", "completed", "failed"}}

FanInit == Init

FanDeliver ==
    /\ delivered < MaxDeliveries
    /\ Spawned(ScnTask)
    /\ tasks[ScnTask].status \notin TerminalStatuses
    /\ \E ev \in FanEvents : Webhook(ScnTask, ev)

FanNext ==
    \/ WhStart
    \/ FanDeliver
    \/ \E w \in sessionWrites : WebhookSessionUpdate(w)
    \/ \E o \in ObserverIds : StreamConnect(o, ScnTask)
    \/ \E o \in ObserverIds : StreamPoll(o)
    \/ \E o \in ObserverIds : StreamCloseTimer(o)
    \/ \E o \in ObserverIds : StreamAbort(o)

FanSpec == FanInit /\ [][FanNext]_vars

\* C27: observers of one task do not interfere: a step that changes one
\* stream (its connection, one of its polls, its close or its disconnection)
\* changes neither the position nor the delivered events of another stream,
\* nor the Task Store; and a step of the Task Store changes no stream.
ObserversDoNotInterfere ==
    [][/\ \A o, q \in ObserverIds :
             (o # q /\ streams'[o] # streams[o])
                => /\ streams'[q] = streams[q]
                   /\ UNCHANGED <<tasks, chatSessions>>
       /\ tasks' # tasks => streams' = streams]_vars

\* The first observer went away after the connected event; the second one,
\* connected to the same task, received more and was closed by the handler.
ObserversDoNotInterfereWitness ==
    /\ streams[1].isAborted
    /\ streams[1].taskId = streams[2].taskId
    /\ Len(streams[1].out) = 1
    /\ Len(streams[2].out) > 2
    /\ streams[2].pc = "closed"
    /\ ~streams[2].isAborted

\* ------------------------------------------- polls that fail, observers
\* that go away during a poll
PollInit == Init

PollNext ==
    \/ WhStart
    \/ StreamDeliver
    \/ \E w \in sessionWrites : WebhookSessionUpdate(w)
    \/ StreamConnect(1, ScnTask)
    \/ StreamPoll(1)
    \/ StreamPollFails(1)
    \/ StreamCloseTimer(1)
    \/ StreamAbort(1)
    \/ StreamAbortInFlight(1)
    \/ \E accepts \in BOOLEAN : StreamPollAfterAbort(1, accepts)

PollSpec == PollInit /\ [][PollNext]_vars

\* A poll that is due is made, a timer that is due fires and findUnique
\* answers.
PollFairSpec ==
    /\ PollSpec
    /\ WF_vars(StreamPoll(1))
    /\ WF_vars(StreamCloseTimer(1))
    /\ WF_vars(\E accepts \in BOOLEAN : StreamPollAfterAbort(1, accepts))

\* C28 (as claimed): after the observer has gone away, between two polls or
\* during one, nothing more is enqueued to its stream, and the stream comes
\* to a state where no poll and no timer is due, for good.
NothingAfterAbort ==
    /\ [][stream.isAborted => stream'.out = stream.out]_vars
    /\ (stream.isAborted ~> [](stream.pc = "stopped"))

\* C29 (as claimed): a poll that fails sends nothing, leaves the stream open
\* and its position where it was, and another poll is due; when polls have
\* failed MaxPollFailures times in a row the observer has received an error
\* event.
PollFailureRetriedThenReported ==
    /\ [][stream'.failures > stream.failures =>
             /\ stream'.out = stream.out
             /\ stream'.lastStatus = stream.lastStatus
             /\ stream'.lastUpdateCount = stream.lastUpdateCount
             /\ stream'.isClosed = stream.isClosed
             /\ ~stream'.isClosed
             /\ stream'.pc = "polling"]_vars
    /\ [](stream.failures = MaxPollFailures =>
             \E i \in 1..Len(stream.out) : stream.out[i].type = "error")

\* ------------------------------------------------ who calls the spawn client
\* A step of the webhook handler: an event reached its agentTask.update, a
\* request was answered, or a chatSession.update was made.
IsWebhookHandlerStep ==
    \/ delivered' # delivered
    \/ webhookResp' # webhookResp
    \/ sessionWrites' # sessionWrites

\* The step is the spawn of start request t, or of respond request r, which
\* had passed the checks of its handler.
IsSpawnOfStart(t) ==
    /\ startReq[t].pc = "created"
    /\ startReq'[t].pc \in {"spawned", "error"}

IsSpawnOfRespond(r) ==
    /\ respondReq[r].pc = "written"
    /\ respondReq'[r].pc \in {"done", "error"}

\* C31: no step of the webhook handler makes a spawn call, whatever the
\* event; a spawn call is made only by a start request, or by a respond
\* request that was accepted, and it is a call for the task of that request.
WebhookNeverSpawns ==
    [][/\ IsWebhookHandlerStep => spawnCalls' = spawnCalls
       /\ spawnCalls' # spawnCalls =>
             /\ Len(spawnCalls') = Len(spawnCalls) + 1
             /\ SubSeq(spawnCalls', 1, Len(spawnCalls)) = spawnCalls
             /\ LET call == spawnCalls'[Len(spawnCalls')]
                IN  \/ \E t \in TaskIds : IsSpawnOfStart(t) /\ call.taskId = t
                    \/ \E r \in RespondIds :
                          /\ IsSpawnOfRespond(r)
                          /\ call.taskId = respondReq[r].taskId]_vars

\* The webhook handler has handled a clarification_needed event, and the only
\* spawn call made so far is the one of the start request.
WebhookNeverSpawnsWitness ==
    /\ \E t \in DOMAIN tasks :
          /\ tasks[t].status = "awaiting_input"
          /\ tasks[t].pendingClarification # Null
    /\ delivered > 0
    /\ Len(spawnCalls) = 1

\* ---------------------------------------------- the prompt of a task
\* A task is started in a new chat session or in one that has two finished
\* tasks, receives webhook events and one response, and is cancelled, in any
\* order.
PromptInit == \E n \in {0, 2} : HistInitWith(n, 0, 0)

PromptNext ==
    \/ HistStart
    \/ StreamDeliver
    \/ \E w \in sessionWrites : WebhookSessionUpdate(w)
    \/ StreamRespond
    \/ Cancel(ScnTask)

PromptSpec == PromptInit /\ [][PromptNext]_vars

\* C33: the taskPrompt of a task is the prompt the user gave to the start
\* request, not the contextual prompt sent to the worker, and no step of
\* start, respond, cancel or the webhook changes it once the task exists.
TaskPromptImmutable ==
    [][\A t \in DOMAIN tasks' :
          IF t \in DOMAIN tasks
          THEN tasks'[t].taskPrompt = tasks[t].taskPrompt
          ELSE /\ tasks'[t].taskPrompt \in Prompts
               /\ tasks'[t].taskPrompt = startReq[t].task]_vars

\* The task was started with a contextual prompt that holds history, was
\* answered, completed and cancelled; its taskPrompt is the user's prompt.
TaskPromptImmutableWitness ==
    /\ ScnTask \in DOMAIN tasks
    /\ startReq[ScnTask].pc = "done"
    /\ Len(startReq[ScnTask].prompt) > 1
    /\ Len(spawnCalls) > 0
    /\ spawnCalls[1].prompt = startReq[ScnTask].prompt
    /\ respondReq[1].pc = "done"
    /\ tasks[ScnTask].status = "completed"
    /\ ScnTask \in cancelOk
    /\ tasks[ScnTask].taskPrompt = startReq[ScnTask].task

\* ------------------------------------- a stream for a task that is missing
NotFoundSent ==
    \E i \in 1..Len(stream.out) : stream.out[i].type = "error"

\* The stream is open, a poll is due and the task is not in the store.
PollOfMissingTaskDue ==
    /\ stream.pc = "polling"
    /\ ~stream.isAborted
    /\ stream.taskId \notin DOMAIN tasks

\* C37: a stream opened for a task id that is not in the store sends the
\* connected event and then, at its poll, one error event for the missing
\* task; the handler closes the stream with that poll, no poll is scheduled
\* and nothing is sent afterwards.
MissingTaskStreamClosed ==
    /\ [][(PollOfMissingTaskDue /\ stream'.out # stream.out) =>
             /\ stream.out = <<ConnectedEvent>>
             /\ stream'.out = <<ConnectedEvent, TaskNotFoundEvent>>
             /\ stream'.isClosed
             /\ stream'.pc = "closed"]_vars
    /\ [][NotFoundSent => /\ stream' = stream
                          /\ stream.pc = "closed"]_vars
    /\ (PollOfMissingTaskDue ~>
           (NotFoundSent \/ stream.isAborted \/ stream.taskId \in DOMAIN tasks))

\* The stream was opened before the task was created and was closed after
\* its error event; the task was created afterwards.
MissingTaskStreamClosedWitness ==
    /\ stream.out = <<ConnectedEvent, TaskNotFoundEvent>>
    /\ stream.pc = "closed"
    /\ stream.isClosed
    /\ ~stream.isAborted
    /\ stream.taskId \in DOMAIN tasks

\* --------------------------------------- an observer and two clarifications
\* The first invocation of the worker asks q1 and ends; the response spawns
\* the second invocation, which asks q2.  Each clarification_needed event is
\* delivered once.  One observer connects, polls and may go away at any
\* moment.
ClarQuestion == <<"q1", "q2">>

ClarEvent(i) ==
    [type |-> "clarification_needed", sessionId |-> InvocationHandle[i],
     question |-> ClarQuestion[i]]

ClarInit == Init

ClarDeliver ==
    /\ delivered < MaxInvocations
    /\ delivered < Invocations(ScnTask)
    /\ Webhook(ScnTask, ClarEvent(delivered + 1))

ClarNext ==
    \/ WhStart
    \/ ClarDeliver
    \/ \E w \in sessionWrites : WebhookSessionUpdate(w)
    \/ StreamRespond
    \/ StreamConnect(1, ScnTask)
    \/ StreamPoll(1)
    \/ StreamAbort(1)

ClarSpec == ClarInit /\ [][ClarNext]_vars

\* A poll that is due is made.
ClarFairSpec == ClarSpec /\ WF_vars(StreamPoll(1))

\* The clarification_needed events with question q the stream has sent.
ClarificationsSent(q) ==
    SelectSeq(stream.out, LAMBDA e : e.type = "clarification_needed" /\ e.question = q)

\* The observer is connected while the task awaits an answer to question q.
ObservedAwaiting(q) ==
    /\ stream.pc = "polling"
    /\ ~stream.isAborted
    /\ stream.taskId \in DOMAIN tasks
    /\ tasks[stream.taskId].status = "awaiting_input"
    /\ tasks[stream.taskId].pendingClarification = q

\* C34 (as claimed): while an observer is connected, every clarification is
\* sent to it once: when the task awaits an answer to a question, the stream
\* comes to have sent one clarification_needed event with that question,
\* unless the task leaves awaiting_input or the observer goes away before the
\* next poll; and no question is sent twice.
ClarificationDeliveredOnce ==
    /\ \A q \in Questions :
          ObservedAwaiting(q) ~>
              \/ Len(ClarificationsSent(q)) = 1
              \/ ~ObservedAwaiting(q)
    /\ [](\A q \in Questions : Len(ClarificationsSent(q)) <= 1)

\* --------------------------------------------- one run of the worker
\* The worker of the task is spawned and sends, in this order,
\* session_started, one status_update and then completed or failed.  The row
\* shows how far the deliveries have come: the handle, the status update and
\* the result are each written by one of the events and cleared by no
\* handler.  Every event is delivered, in order, while the start request may
\* still be between its spawn call and its last write.
ProgInit == Init

ProgEmitted ==
    IF ScnTask \notin DOMAIN tasks THEN {}
    ELSE LET row == tasks[ScnTask]
         IN  IF row.agentSessionId = Null
             THEN {[type |-> "session_started", sessionId |-> "s1"]}
             ELSE IF row.statusUpdates = << >>
             THEN {[type |-> "status_update", message |-> "m1"]}
             ELSE IF row.result.isNull
             THEN {[type |-> "completed", sessionId |-> "s1", result |-> "x1"],
                   [type |-> "failed", error |-> "e1"]}
             ELSE {}

ProgDeliver ==
    /\ Spawned(ScnTask)
    /\ \E ev \in ProgEmitted : Webhook(ScnTask, ev)

ProgNext ==
    \/ WhStart
    \/ ProgDeliver
    \/ \E w \in sessionWrites : WebhookSessionUpdate(w)
    \/ Tick

ProgSpec == ProgInit /\ [][ProgNext]_vars

\* Every handler goes on to its next await and every event the worker has
\* sent is delivered.
ProgFairSpec ==
    /\ ProgSpec
    /\ WF_vars(WhStart)
    /\ WF_vars(ProgDeliver)
    /\ WF_vars(\E w \in sessionWrites : WebhookSessionUpdate(w))

\* C35 (as claimed): once the spawn call of the start request has succeeded,
\* the task comes to a terminal status and stays in it.
ProgressToTerminal ==
    Spawned(ScnTask) ~>
        [](ScnTask \in DOMAIN tasks /\ tasks[ScnTask].status \in TerminalStatuses)

\* ------------------------------------------------------- legacy handlers
\* The handlers of src/src/app/api/agent/respond/route.ts: a respond handler
\* that counts execution segments and a webhook handler that publishes each
\* event to Redis after its update.  Their task rows have the column
\* executionSegment; segment 1 is the first run of the worker.
LegacyInitialSegment == 1

LegacyTask(p, c, n) ==
    LET row == NewTask(p, c, n)
    IN  [f \in DOMAIN row \cup {"executionSegment"} |->
            IF f = "executionSegment" THEN LegacyInitialSegment ELSE row[f]]

\* The update of each case of the legacy webhook switch but status_update.
LegacyApplyToTask(task, ev, now) ==
    CASE ev.type = "session_started" ->
            [task EXCEPT !.agentSessionId = ev.sessionId,
                         !.status = "running"]
      [] ev.type = "clarification_needed" ->
            [task EXCEPT !.status = "awaiting_input",
                         !.agentSessionId = ev.sessionId,
                         !.pendingClarification = ev.question]
      [] ev.type = "completed" ->
            [task EXCEPT !.status = "completed",
                         !.result = CompletedResult(ev.result),
                         !.completedAt = now]
      [] ev.type = "failed" ->
            [task EXCEPT !.status = "failed",
                         !.result = FailedResult(ev.error)]

\* An event of a case that makes one update; publishTaskEvent follows and
\* writes nothing to the row.
LegacyWebhook(t, ev) ==
    /\ t \in DOMAIN tasks
    /\ ev.type \in EventTypes \ {"status_update"}
    /\ tasks' = [tasks EXCEPT ![t] = LegacyApplyToTask(tasks[t], ev, clock)]
    /\ delivered' = delivered + 1
    /\ UNCHANGED <<scn, evlog, snapshot, legacy>>
    /\ UNCHANGED <<webhookResp, streams>>
    /\ UNCHANGED <<chatSessions, spawnCalls, clock, startReq, respondReq,
                   sessionWrites, cancelOk>>

\* The status_update case up to its findUnique: the list is read.
LegacyStatusRead(h, t, ev) ==
    /\ legacy[h].pc = "idle"
    /\ ev.type = "status_update"
    /\ legacy' = [legacy EXCEPT ![h] =
           [@ EXCEPT !.pc = "status_read", !.kind = "status_update",
                     !.taskId = t, !.input = ev.message,
                     !.updates = IF t \in DOMAIN tasks
                                 THEN tasks[t].statusUpdates ELSE << >>]]
    /\ UNCHANGED <<scn, evlog, snapshot>>
    /\ UNCHANGED <<webhookResp, streams>>
    /\ UNCHANGED <<tasks, chatSessions, spawnCalls, clock, startReq, respondReq,
                   sessionWrites, delivered, cancelOk>>

\* The status_update case from its update on: the list read, with the new
\* entry, is written back; an update of a missing row throws.
LegacyStatusWrite(h) ==
    /\ legacy[h].pc = "status_read"
    /\ LET t == legacy[h].taskId
       IN  IF t \in DOMAIN tasks
           THEN /\ tasks' = [tasks EXCEPT ![t].statusUpdates =
                               Append(legacy[h].updates,
                                      [message |-> legacy[h].input,
                                       timestamp |-> clock])]
                /\ legacy' = [legacy EXCEPT ![h].pc = "done"]
                /\ delivered' = delivered + 1
           ELSE /\ legacy' = [legacy EXCEPT ![h].pc = "error"]
                /\ UNCHANGED <<tasks, delivered>>
    /\ UNCHANGED <<scn, evlog, snapshot>>
    /\ UNCHANGED <<webhookResp, streams>>
    /\ UNCHANGED <<chatSessions, spawnCalls, clock, startReq, respondReq,
                   sessionWrites, cancelOk>>

\* What the legacy respond handler checks on the row it read.
LegacyRespondAccepts(t, response) ==
    /\ t # Null
    /\ response # ""
    /\ t \in DOMAIN tasks
    /\ tasks[t].status = "awaiting_input"
    /\ tasks[t].agentSessionId # Null

\* A request that fails a check is answered 400 or 404.
LegacyRespondReject(h, t, response) ==
    /\ legacy[h].pc = "idle"
    /\ ~LegacyRespondAccepts(t, response)
    /\ legacy' = [legacy EXCEPT ![h] =
           [@ EXCEPT !.pc = "rejected", !.kind = "respond"]]
    /\ UNCHANGED <<scn, evlog, snapshot>>
    /\ UNCHANGED <<webhookResp, streams>>
    /\ UNCHANGED <<tasks, chatSessions, spawnCalls, clock, startReq, respondReq,
                   sessionWrites, delivered, cancelOk>>

\* findUnique and the checks: the handler keeps the row it read.
LegacyRespondRead(h, t, response) ==
    /\ legacy[h].pc = "idle"
    /\ LegacyRespondAccepts(t, response)
    /\ legacy' = [legacy EXCEPT ![h] =
           [@ EXCEPT !.pc = "respond_read", !.kind = "respond",
                     !.taskId = t, !.input = response,
                     !.segment = tasks[t].executionSegment,
                     !.agentSessionId = tasks[t].agentSessionId]]
    /\ UNCHANGED <<scn, evlog, snapshot>>
    /\ UNCHANGED <<webhookResp, streams>>
    /\ UNCHANGED <<tasks, chatSessions, spawnCalls, clock, startReq, respondReq,
                   sessionWrites, delivered, cancelOk>>

\* db.agentTask.update({ status: "running", pendingClarification: DbNull,
\* executionSegment: task.executionSegment + 1 }).
LegacyRespondWrite(h) ==
    /\ legacy[h].pc = "respond_read"
    /\ tasks' = [tasks EXCEPT
           ![legacy[h].taskId].status = "running",
           ![legacy[h].taskId].pendingClarification = Null,
           ![legacy[h].taskId].executionSegment = legacy[h].segment + 1]
    /\ legacy' = [legacy EXCEPT ![h].pc = "respond_written"]
    /\ UNCHANGED <<scn, evlog, snapshot>>
    /\ UNCHANGED <<webhookResp, streams>>
    /\ UNCHANGED <<chatSessions, spawnCalls, clock, startReq, respondReq,
                   sessionWrites, delivered, cancelOk>>

\* fetch(modalUrl, ...) with the handle and the segment of the row read; a
\* fetch that throws is logged and the request is answered {ok: true}.
LegacyRespondSpawn(h, ok) ==
    /\ legacy[h].pc = "respond_written"
    /\ spawnCalls' = Append(spawnCalls,
           [taskId |-> legacy[h].taskId, prompt |-> <<legacy[h].input>>,
            resumeSessionId |-> legacy[h].agentSessionId, ok |-> ok,
            executionSegment |-> legacy[h].segment + 1])
    /\ legacy' = [legacy EXCEPT ![h].pc = "done"]
    /\ UNCHANGED <<scn, evlog, snapshot>>
    /\ UNCHANGED <<webhookResp, streams>>
    /\ UNCHANGED <<tasks, chatSessions, clock, startReq, respondReq,
                   sessionWrites, delivered, cancelOk>>

\* One task, created by the legacy start handler and spawned, receives
\* webhook events and responses through the legacy handlers, at most two
\* requests of the handlers that await twice being in flight at a time.
LegInit ==
    /\ tasks = [t \in {ScnTask} |-> LegacyTask("list files", "c1", 1)]
    /\ chatSessions = [c \in {"c1"} |-> [agentSessionId |-> Null]]
    /\ spawnCalls = << >>
    /\ clock = 1
    /\ startReq = [t \in TaskIds |-> StartIdle]
    /\ respondReq = [r \in RespondIds |-> RespondIdle]
    /\ sessionWrites = {}
    /\ delivered = 0
    /\ cancelOk = {}
    /\ webhookResp = NoResponse
    /\ streams = [o \in ObserverIds |-> StreamIdle]
    /\ scn = NoScenario
    /\ evlog = << >>
    /\ snapshot = NoRows
    /\ legacy = [h \in LegacyIds |-> LegacyIdle]

LegDeliver ==
    /\ delivered < MaxDeliveries
    /\ \/ \E ev \in LineageEvents : LegacyWebhook(ScnTask, ev)
       \/ \E h \in LegacyIds, ev \in LineageEvents : LegacyStatusRead(h, ScnTask, ev)

LegRespond ==
    \E h \in LegacyIds :
        \/ LegacyRespondReject(h, ScnTask, "/tmp")
        \/ LegacyRespondRead(h, ScnTask, "/tmp")
        \/ LegacyRespondWrite(h)
        \/ LegacyRespondSpawn(h, TRUE)

LegNext ==
    \/ LegDeliver
    \/ \E h \in LegacyIds : LegacyStatusWrite(h)
    \/ LegRespond

LegSpec == LegInit /\ [][LegNext]_vars

\* The requests of the given kind for task t that have made their update.
LegacyFinished(t, kind, pcs) ==
    {h \in LegacyIds : /\ legacy[h].kind = kind
                       /\ legacy[h].pc \in pcs
                       /\ legacy[h].taskId = t}

\* C32 (as claimed): every status_update event whose legacy handler has made
\* its update has its entry in the statusUpdates of the task, also when two
\* of them were handled at the same time.
LegacyNoLostStatusUpdate ==
    \A t \in DOMAIN tasks :
        Len(tasks[t].statusUpdates)
            >= Cardinality(LegacyFinished(t, "status_update", {"done"}))

\* C36 (as claimed): the executionSegment of a task is its initial value plus
\* the number of legacy respond requests that were accepted and have made
\* their update, and the segment number sent to the worker is the one stored
\* when it is sent.
LegacySegmentCountsResumes ==
    /\ [](\A t \in DOMAIN tasks :
             tasks[t].executionSegment =
                 LegacyInitialSegment
                 + Cardinality(LegacyFinished(t, "respond",
                                              {"respond_written", "done"})))
    /\ [][spawnCalls' # spawnCalls =>
             LET call == spawnCalls'[Len(spawnCalls')]
             IN  call.executionSegment = tasks[call.taskId].executionSegment]_vars

====
